---- MODULE Spec2Model ----
(***************************************************************************)
(* A model of unicol-sandbox (src/src/lib.rs): the Unicode Collation       *)
(* Algorithm over a code-point sequence.  Strings are sequences of code    *)
(* points; the weight tables are excerpts of allkeys.txt / allkeys_CLDR    *)
(* with one row per structural class the algorithm distinguishes.          *)
(***************************************************************************)
EXTENDS Integers, Sequences, FiniteSets, TLC

VARIABLES
    str_a, str_b, str_c,   \* the strings handed to the public functions
    opt,                   \* the CollationOptions of the call
    pc,                    \* where the run is
    a_nfd, b_nfd,          \* the locals of collate: None until assigned, then Some
    a_sk, b_sk,
    result,                \* the Ordering returned; "none" before, "panic" for a panic
    cea_state,             \* the state of get_cea between iterations of 'outer
    lazy,                  \* the Lazy cell of each static table
    calls,                 \* the calls running on the threads, one per thread
    row_left               \* what is left of the table row being emitted

vars == <<str_a, str_b, str_c, opt, pc, a_nfd, b_nfd, a_sk, b_sk, result, cea_state, lazy,
          calls, row_left>>

(***************************************************************************)
(* Bounds of the model                                                     *)
(***************************************************************************)
\* longest input string of the pair specification
MaxLen == 3
\* longest input string of the sort-key specification
MaxKeyLen == 3
\* longest input string of the canonical-equivalence specification
MaxCanonLen == 3
\* longest free tail of the strings of the three-string specification
MaxTail == 2
\* longest sequence of the prefix-trim specification
MaxTrimLen == 3

\* longest input string of the shifted-comparison specification
MaxShiftLen == 2

(***************************************************************************)
(* Structs etc.                                                            *)
(***************************************************************************)
Weights(v, p, s, t) == [variable |-> v, primary |-> p, secondary |-> s, tertiary |-> t]

CollationOptions == [cldr : BOOLEAN, shifting : BOOLEAN]

Ordering == {"Less", "Equal", "Greater"}

\* Option<T>: None is the empty set, Some(x) the singleton
None == {}

Some(x) == {x}

unwrap(x) == CHOOSE v \in x : TRUE

(***************************************************************************)
(* Static/const: the tables.  Code points of the excerpt:                  *)
(*   0 NUL (completely ignorable)    32 SPACE, 45 HYPHEN-MINUS (variable)  *)
(*   96 GRAVE ACCENT (variable in DUCET, a symbol in CLDR root)            *)
(*   65 A, 97 a, 101 e               108 l (starts the contraction l.)     *)
(*   183 MIDDLE DOT                  233 e-acute = 101 769                 *)
(*   768 grave, 769 acute, 774 breve (ccc 230)   820 tilde overlay (ccc 1) *)
(*   832 grave tone mark = 768       1080 i-cyr, 1081 short i = 1080 774   *)
(*   4352 4449 jamo, 44032 Hangul GA = 4352 4449                           *)
(*   4018 TIBETAN SUBJOINED RA (in NEED_THREE); 3953 TIBETAN VOWEL SIGN AA *)
(*   (ccc 129, in NEED_TWO); 3968 TIBETAN VOWEL SIGN REVERSED I (ccc 130); *)
(*   3956 TIBETAN VOWEL SIGN U (ccc 132); contractions 4018 3968,          *)
(*   4018 3953 3968, 3953 3968, 3953 3956, and in CLDR root also the       *)
(*   prefix 4018 3953                                                      *)
(*   55296 a surrogate, 57344 a private-use code point (no table row)      *)
(***************************************************************************)
LOW == (0 :> Weights(FALSE, 0, 0, 0)) @@ (32 :> Weights(TRUE, 521, 32, 2))
       @@ (45 :> Weights(TRUE, 525, 32, 2)) @@ (96 :> Weights(TRUE, 1154, 32, 2))
       @@ (65 :> Weights(FALSE, 8098, 32, 8)) @@ (97 :> Weights(FALSE, 8098, 32, 2))
       @@ (101 :> Weights(FALSE, 8199, 32, 2))

LOW_CLDR == (96 :> Weights(FALSE, 1078, 32, 2)) @@ LOW

SING == [c \in DOMAIN LOW |-> <<LOW[c]>>]
        @@ (108 :> <<Weights(FALSE, 8389, 32, 2)>>)
        @@ (183 :> <<Weights(TRUE, 617, 32, 2)>>)
        @@ (233 :> <<Weights(FALSE, 8199, 32, 2), Weights(FALSE, 0, 36, 2)>>)
        @@ (768 :> <<Weights(FALSE, 0, 37, 2)>>)
        @@ (769 :> <<Weights(FALSE, 0, 36, 2)>>)
        @@ (774 :> <<Weights(FALSE, 0, 38, 2)>>)
        @@ (820 :> <<Weights(FALSE, 0, 74, 2)>>)
        @@ (832 :> <<Weights(FALSE, 0, 37, 2)>>)
        @@ (1080 :> <<Weights(FALSE, 8732, 32, 2)>>)
        @@ (1081 :> <<Weights(FALSE, 8736, 32, 2)>>)
        @@ (4352 :> <<Weights(FALSE, 15565, 32, 2)>>)
        @@ (4449 :> <<Weights(FALSE, 15689, 32, 2)>>)
        @@ (3953 :> <<Weights(FALSE, 12001, 32, 2)>>)
        @@ (3956 :> <<Weights(FALSE, 12004, 32, 2)>>)
        @@ (3968 :> <<Weights(FALSE, 12010, 32, 2)>>)
        @@ (4018 :> <<Weights(FALSE, 11990, 32, 2)>>)

SING_CLDR == (96 :> <<LOW_CLDR[96]>>) @@ SING

MULT == (<<108, 183>> :> <<Weights(FALSE, 8389, 32, 2), Weights(FALSE, 0, 272, 2)>>)
        @@ (<<1080, 774>> :> <<Weights(FALSE, 8736, 32, 2)>>)
        @@ (<<3953, 3968>> :> <<Weights(FALSE, 12011, 32, 2)>>)
        @@ (<<3953, 3956>> :> <<Weights(FALSE, 12005, 32, 2)>>)
        @@ (<<4018, 3968>> :> <<Weights(FALSE, 12007, 32, 2)>>)
        @@ (<<4018, 3953, 3968>> :> <<Weights(FALSE, 12008, 32, 2)>>)

MULT_CLDR == (<<4018, 3953>> :> <<Weights(FALSE, 12006, 32, 2)>>) @@ MULT

\* packed (lead-CCC << 8) | trail-CCC of the canonical decomposition
FCD == (233 :> 230) @@ (832 :> 59110) @@ (1081 :> 230)

NEED_THREE == {3270, 3545, 4018, 4019}

NEED_TWO == {76, 108, 1048, 1080, 1575, 1608, 1610, 2503, 2887, 2962, 3014, 3015, 3142, 3263,
             3274, 3398, 3399, 3548, 3648, 3649, 3650, 3651, 3652, 3661, 3776, 3777, 3778,
             3779, 3780, 3789, 3953, 4133, 6581, 6582, 6583, 6586, 6917, 6919, 6921, 6923,
             6925, 6929, 6970, 6972, 6974, 6975, 6978, 43701, 43702, 43705, 43707, 43708,
             69937, 69938, 70471, 70841, 71096, 71097, 71989}

INCLUDED_UNASSIGNED == {177977, 178206, 183970, 191457}

\* the value the closure of each static decodes from its embedded bytes
decoded(n) ==
    CASE n = "FCD" -> FCD
      [] n = "LOW" -> LOW
      [] n = "SING" -> SING
      [] n = "MULT" -> MULT
      [] n = "LOW_CLDR" -> LOW_CLDR
      [] n = "SING_CLDR" -> SING_CLDR
      [] n = "MULT_CLDR" -> MULT_CLDR

Statics == {"FCD", "LOW", "SING", "MULT", "LOW_CLDR", "SING_CLDR", "MULT_CLDR"}

\* every table forced before the call: the state the sequential
\* specifications run in
TablesLoaded ==
    /\ lazy = [n \in Statics |-> [state |-> "complete", slot |-> Some(decoded(n))]]
    /\ calls = <<>>

(***************************************************************************)
(* The libraries the code calls                                            *)
(***************************************************************************)
\* unicode_canonical_combining_class::get_canonical_combining_class
get_ccc(c) ==
    CASE c \in {768, 769, 774, 832} -> 230
      [] c = 820 -> 1
      [] c = 3953 -> 129
      [] c = 3968 -> 130
      [] c = 3956 -> 132
      [] OTHER -> 0

\* char::from_u32: None for a surrogate and above 0x10FFFF
from_u32(c) == IF (c >= 55296 /\ c <= 57343) \/ c > 1114111 THEN None ELSE Some(c)

\* the full canonical decomposition of one code point
Decomposition(c) ==
    CASE c = 233 -> <<101, 769>>
      [] c = 832 -> <<768>>
      [] c = 1081 -> <<1080, 774>>
      [] c = 44032 -> <<4352, 4449>>
      [] OTHER -> <<c>>

RECURSIVE DecomposeAll(_)
DecomposeAll(s) == IF s = <<>> THEN <<>> ELSE Decomposition(Head(s)) \o DecomposeAll(Tail(s))

\* canonical ordering: exchange adjacent non-starters that are out of order
Swappable(s, i) == get_ccc(s[i + 1]) > 0 /\ get_ccc(s[i]) > get_ccc(s[i + 1])

RECURSIVE CanonicalOrder(_)
CanonicalOrder(s) ==
    IF \E i \in 1..(Len(s) - 1) : Swappable(s, i)
    THEN LET i == CHOOSE j \in 1..(Len(s) - 1) : Swappable(s, j)
         IN  CanonicalOrder([s EXCEPT ![i] = s[i + 1], ![i + 1] = s[i]])
    ELSE s

\* UnicodeNormalization::nfd
nfd(s) == CanonicalOrder(DecomposeAll(s))

\* the UTF-8 bytes of a str, which is what == and cmp on &str compare
Utf8(c) ==
    IF c < 128 THEN <<c>>
    ELSE IF c < 2048 THEN <<192 + (c \div 64), 128 + (c % 64)>>
    ELSE IF c < 65536
         THEN <<224 + (c \div 4096), 128 + ((c \div 64) % 64), 128 + (c % 64)>>
         ELSE <<240 + (c \div 262144), 128 + ((c \div 4096) % 64),
                128 + ((c \div 64) % 64), 128 + (c % 64)>>

RECURSIVE Bytes(_)
Bytes(s) == IF s = <<>> THEN <<>> ELSE Utf8(Head(s)) \o Bytes(Tail(s))

\* Ord::cmp on slices and vectors: lexicographic, a proper prefix is Less
RECURSIVE cmp(_, _)
cmp(x, y) ==
    IF x = <<>> THEN (IF y = <<>> THEN "Equal" ELSE "Less")
    ELSE IF y = <<>> THEN "Greater"
    ELSE IF Head(x) < Head(y) THEN "Less"
    ELSE IF Head(x) > Head(y) THEN "Greater"
    ELSE cmp(Tail(x), Tail(y))

str_cmp(x, y) == cmp(Bytes(x), Bytes(y))

(***************************************************************************)
(* Functions, private: normalisation gate                                  *)
(***************************************************************************)
RECURSIVE fcd_loop(_, _, _)
fcd_loop(input, i, prev_trail_cc) ==
    IF i > Len(input) THEN TRUE
    ELSE LET c == input[i]
             vals == IF c \in DOMAIN FCD THEN FCD[c] ELSE get_ccc(c) * 256 + get_ccc(c)
             curr_lead_cc == vals \div 256
             curr_trail_cc == vals % 256
         IN  IF c < 192 THEN fcd_loop(input, i + 1, 0)
             ELSE IF c = 3969 \/ (c >= 44032 /\ c <= 55215) THEN FALSE
             ELSE IF curr_lead_cc # 0 /\ curr_lead_cc < prev_trail_cc THEN FALSE
             ELSE fcd_loop(input, i + 1, curr_trail_cc)

\* fcd with the Hangul / U+0F81 test left out
RECURSIVE fcd_loop_no_hangul(_, _, _)
fcd_loop_no_hangul(input, i, prev_trail_cc) ==
    IF i > Len(input) THEN TRUE
    ELSE LET c == input[i]
             vals == IF c \in DOMAIN FCD THEN FCD[c] ELSE get_ccc(c) * 256 + get_ccc(c)
         IN  IF c < 192 THEN fcd_loop_no_hangul(input, i + 1, 0)
             ELSE IF vals \div 256 # 0 /\ vals \div 256 < prev_trail_cc THEN FALSE
             ELSE fcd_loop_no_hangul(input, i + 1, vals % 256)

fcd_no_hangul(input) == fcd_loop_no_hangul(input, 1, 0)

\* fcd with the lead-versus-previous-trail test left out
RECURSIVE fcd_loop_no_order(_, _)
fcd_loop_no_order(input, i) ==
    IF i > Len(input) THEN TRUE
    ELSE LET c == input[i]
         IN  IF c < 192 THEN fcd_loop_no_order(input, i + 1)
             ELSE IF c = 3969 \/ (c >= 44032 /\ c <= 55215) THEN FALSE
             ELSE fcd_loop_no_order(input, i + 1)

fcd_no_order(input) == fcd_loop_no_order(input, 1)

fcd(input) == fcd_loop(input, 1, 0)

get_nfd(input) == IF fcd(input) THEN input ELSE nfd(input)

(***************************************************************************)
(* Prefix trim                                                             *)
(***************************************************************************)
RECURSIVE find_prefix(_, _)
find_prefix(a, b) ==
    IF a # <<>> /\ b # <<>> /\ Head(a) = Head(b)
       /\ Head(a) \notin NEED_THREE /\ Head(a) \notin NEED_TWO
    THEN 1 + find_prefix(Tail(a), Tail(b))
    ELSE 0

\* the row of the final prefix code point has a variable or primary-0 entry
bad_row(row) == \E i \in 1..Len(row) : row[i].variable \/ row[i].primary = 0

drain(v, n) == SubSeq(v, n + 1, Len(v))

\* trim_prefix without the test of the final code point of the prefix
trim_prefix_no_test(a, b, cldr) ==
    LET prefix_len == find_prefix(a, b)
    IN  <<drain(a, prefix_len), drain(b, prefix_len)>>

\* trim_prefix with b.drain(0..prefix_len) forgotten
trim_prefix_one_side(a, b, cldr) ==
    LET prefix_len == find_prefix(a, b)
        sing == IF cldr THEN SING_CLDR ELSE SING
    IN  IF prefix_len > 0
        THEN IF a[prefix_len] \in DOMAIN sing /\ bad_row(sing[a[prefix_len]])
             THEN <<a, b>>
             ELSE <<drain(a, prefix_len), b>>
        ELSE <<a, b>>

trim_prefix(a, b, cldr) ==
    LET prefix_len == find_prefix(a, b)
        sing == IF cldr THEN SING_CLDR ELSE SING
    IN  IF prefix_len > 0
        THEN IF a[prefix_len] \in DOMAIN sing /\ bad_row(sing[a[prefix_len]])
             THEN <<a, b>>
             ELSE <<drain(a, prefix_len), drain(b, prefix_len)>>
        ELSE <<a, b>>

(***************************************************************************)
(* Sort-key flattener                                                      *)
(***************************************************************************)
RECURSIVE level(_, _)
level(collation_element_array, i) ==
    IF collation_element_array = <<>> THEN <<>>
    ELSE LET elem == Head(collation_element_array)
         IN  (IF elem[i] # 0 THEN <<elem[i]>> ELSE <<>>)
             \o level(Tail(collation_element_array), i)

RECURSIVE sort_key_levels(_, _, _)
sort_key_levels(collation_element_array, i, max_level) ==
    IF i > max_level THEN <<>>
    ELSE (IF i > 1 THEN <<0>> ELSE <<>>) \o level(collation_element_array, i)
         \o sort_key_levels(collation_element_array, i + 1, max_level)

\* get_sort_key pushing zero weights too
RECURSIVE level_keep_zero(_, _)
level_keep_zero(collation_element_array, i) ==
    IF collation_element_array = <<>> THEN <<>>
    ELSE <<Head(collation_element_array)[i]>>
         \o level_keep_zero(Tail(collation_element_array), i)

get_sort_key_keep_zero(collation_element_array, shifting) ==
    LET max_level == IF shifting THEN 4 ELSE 3
    IN  level_keep_zero(collation_element_array, 1) \o <<0>>
        \o level_keep_zero(collation_element_array, 2) \o <<0>>
        \o level_keep_zero(collation_element_array, 3)
        \o (IF max_level = 4 THEN <<0>> \o level_keep_zero(collation_element_array, 4)
            ELSE <<>>)

\* get_sort_key pushing the separator after every level, the last included
RECURSIVE sort_key_levels_terminated(_, _, _)
sort_key_levels_terminated(collation_element_array, i, max_level) ==
    IF i > max_level THEN <<>>
    ELSE level(collation_element_array, i) \o <<0>>
         \o sort_key_levels_terminated(collation_element_array, i + 1, max_level)

get_sort_key_terminated(collation_element_array, shifting) ==
    sort_key_levels_terminated(collation_element_array, 1, IF shifting THEN 4 ELSE 3)

get_sort_key(collation_element_array, shifting) ==
    sort_key_levels(collation_element_array, 1, IF shifting THEN 4 ELSE 3)

(***************************************************************************)
(* Weights emission and implicit weights                                   *)
(***************************************************************************)
\* get_weights_shifting without the branch for a variable record
get_weights_shifting_no_variable(weights, last_variable) ==
    IF weights.primary = 0 /\ weights.secondary = 0 /\ weights.tertiary = 0
    THEN <<0, 0, 0, 0>>
    ELSE IF last_variable /\ weights.primary = 0 /\ weights.tertiary # 0
    THEN <<0, 0, 0, 0>>
    ELSE <<weights.primary, weights.secondary, weights.tertiary, 65535>>

get_weights_shifting(weights, last_variable) ==
    IF weights.primary = 0 /\ weights.secondary = 0 /\ weights.tertiary = 0
    THEN <<0, 0, 0, 0>>
    ELSE IF weights.variable THEN <<0, 0, 0, weights.primary>>
    ELSE IF last_variable /\ weights.primary = 0 /\ weights.tertiary # 0
    THEN <<0, 0, 0, 0>>
    ELSE <<weights.primary, weights.secondary, weights.tertiary, 65535>>

\* one pass of the body of `for weights in row`; st is [cea, last_variable]
push_weights(weights, st, shifting) ==
    IF shifting
    THEN [cea |-> Append(st.cea, get_weights_shifting(weights, st.last_variable)),
          last_variable |-> IF weights.variable THEN TRUE
                            ELSE IF weights.primary # 0 THEN FALSE
                            ELSE st.last_variable]
    ELSE [cea |-> Append(st.cea, <<weights.primary, weights.secondary, weights.tertiary>>),
          last_variable |-> st.last_variable]

RECURSIVE push_row(_, _, _)
push_row(row, st, shifting) ==
    IF row = <<>> THEN st
    ELSE push_row(Tail(row), push_weights(Head(row), st, shifting), shifting)

u16(x) == x % 65536

\* implicit_aaaa without the override for INCLUDED_UNASSIGNED
implicit_aaaa_no_override(left_val) ==
    LET x == left_val
    IN  CASE x >= 13312 /\ x <= 19903 -> 64384 + (left_val \div 32768)
          [] x >= 19968 /\ x <= 40959 -> 64320 + (left_val \div 32768)
          [] x >= 63744 /\ x <= 64255 -> 64320 + (left_val \div 32768)
          [] x >= 94208 /\ x <= 101119 -> 64256
          [] x >= 101120 /\ x <= 101631 -> 64258
          [] x >= 101632 /\ x <= 101775 -> 64256
          [] x >= 110960 /\ x <= 111359 -> 64257
          [] x >= 131072 /\ x <= 173791 -> 64384 + (left_val \div 32768)
          [] x >= 173824 /\ x <= 191471 -> 64384 + (left_val \div 32768)
          [] x >= 196608 /\ x <= 201551 -> 64384 + (left_val \div 32768)
          [] OTHER -> 64448 + (left_val \div 32768)

implicit_aaaa(left_val) ==
    LET x == left_val
        aaaa == CASE x >= 13312 /\ x <= 19903 -> 64384 + (left_val \div 32768)
                  [] x >= 19968 /\ x <= 40959 -> 64320 + (left_val \div 32768)
                  [] x >= 63744 /\ x <= 64255 -> 64320 + (left_val \div 32768)
                  [] x >= 94208 /\ x <= 101119 -> 64256
                  [] x >= 101120 /\ x <= 101631 -> 64258
                  [] x >= 101632 /\ x <= 101775 -> 64256
                  [] x >= 110960 /\ x <= 111359 -> 64257
                  [] x >= 131072 /\ x <= 173791 -> 64384 + (left_val \div 32768)
                  [] x >= 173824 /\ x <= 191471 -> 64384 + (left_val \div 32768)
                  [] x >= 196608 /\ x <= 201551 -> 64384 + (left_val \div 32768)
                  [] OTHER -> 64448 + (left_val \div 32768)
    IN  IF left_val \in INCLUDED_UNASSIGNED THEN 64448 + (left_val \div 32768) ELSE aaaa

get_implicit_a(left_val, shifting) ==
    IF shifting THEN <<u16(implicit_aaaa(left_val)), 32, 2, 65535>>
    ELSE <<u16(implicit_aaaa(left_val)), 32, 2>>

\* b | 32768
or_32768(b) == IF (b \div 32768) % 2 = 1 THEN b ELSE b + 32768

implicit_bbbb(left_val) ==
    LET x == left_val
        bbbb == CASE x >= 94208 /\ x <= 101119 -> left_val - 94208
                  [] x >= 101120 /\ x <= 101631 -> left_val - 101120
                  [] x >= 101632 /\ x <= 101775 -> left_val - 94208
                  [] x >= 110960 /\ x <= 111359 -> left_val - 110960
                  [] OTHER -> left_val % 32768
    IN  or_32768(IF left_val \in INCLUDED_UNASSIGNED THEN left_val % 32768 ELSE bbbb)

get_implicit_b(left_val, shifting) ==
    IF shifting THEN <<u16(implicit_bbbb(left_val)), 0, 0, 65535>>
    ELSE <<u16(implicit_bbbb(left_val)), 0, 0>>

(***************************************************************************)
(* CE generator.  A get_cea state g is                                     *)
(*   [char_vals, left, last_variable, cea, panic, slices, discont]         *)
(* with left the 0-based cursor of the code; panic is set by a failed      *)
(* unwrap.  slices and discont record the lookups in multis of the last    *)
(* iteration of 'outer: the contiguous slices, and the keys of the         *)
(* discontiguous searches with the max_right they were built from.         *)
(* at(v, i) is v[i] of the code.                                           *)
(***************************************************************************)
at(v, i) == v[i + 1]

\* &v[i..j]
slice(v, i, j) == SubSeq(v, i + 1, j)

\* Vec::remove
remove(v, i) == SubSeq(v, 1, i) \o SubSeq(v, i + 2, Len(v))

emit(g, row, shifting, new_char_vals, advance) ==
    LET st == push_row(row, [cea |-> g.cea, last_variable |-> g.last_variable], shifting)
    IN  [g EXCEPT !.cea = st.cea, !.last_variable = st.last_variable,
                  !.char_vals = new_char_vals, !.left = g.left + advance]

\* the CCC test of the window char_vals[right..=max_right], from index i on:
\* "ok", "bad" (a CCC of 0 or not above the earlier ones) or "panic"
RECURSIVE kosher(_, _, _, _)
kosher(char_vals, i, max_right, max_ccc) ==
    IF i > max_right THEN "ok"
    ELSE IF from_u32(at(char_vals, i)) = None THEN "panic"
    ELSE LET ccc == get_ccc(at(char_vals, i))
         IN  IF ccc = 0 \/ ccc <= max_ccc THEN "bad"
             ELSE kosher(char_vals, i + 1, max_right, ccc)

\* one iteration of 'inner of the single-starter search; s is
\* [max_right, try_two, found, panic, discont], found being None or Some matched
\* key, discont the keys looked up so far
inner_step(char_vals, left, right, multis, s) ==
    LET check == kosher(char_vals, right, s.max_right, 0)
        new_subset == IF s.try_two
                      THEN <<at(char_vals, left), at(char_vals, s.max_right - 1),
                             at(char_vals, s.max_right)>>
                      ELSE <<at(char_vals, left), at(char_vals, s.max_right)>>
        looked == [s EXCEPT !.discont = Append(@, [key |-> new_subset,
                                                   max_right |-> s.max_right])]
    IN  IF check = "panic" THEN [s EXCEPT !.panic = TRUE]
        ELSE IF check = "bad"
        THEN [s EXCEPT !.try_two = FALSE, !.max_right = s.max_right - 1]
        ELSE IF new_subset \in DOMAIN multis THEN [looked EXCEPT !.found = Some(new_subset)]
        ELSE IF s.try_two THEN [looked EXCEPT !.try_two = FALSE]
        ELSE [looked EXCEPT !.max_right = s.max_right - 1]

RECURSIVE inner_loop(_, _, _, _, _)
inner_loop(char_vals, left, right, multis, s) ==
    IF s.max_right > right /\ s.found = None /\ ~s.panic
    THEN inner_loop(char_vals, left, right, multis,
                    inner_step(char_vals, left, right, multis, s))
    ELSE s

\* the state 'inner starts in, try_two set under either keys source
inner_init_try_two_always(char_vals, right, cldr) ==
    LET len == Len(char_vals)
        max_right == IF right + 2 < len THEN right + 2
                     ELSE IF right + 1 < len THEN right + 1
                     ELSE right
    IN  [max_right |-> max_right, try_two |-> (max_right - right = 2),
         found |-> None, panic |-> FALSE, discont |-> <<>>]

\* the state 'inner starts in: lines 378-387
inner_init(char_vals, right, cldr) ==
    LET len == Len(char_vals)
        max_right == IF right + 2 < len THEN right + 2
                     ELSE IF right + 1 < len THEN right + 1
                     ELSE right
    IN  [max_right |-> max_right, try_two |-> (max_right - right = 2 /\ cldr),
         found |-> None, panic |-> FALSE, discont |-> <<>>]

\* single_starter removing only char_vals[max_right] after a three-point match
single_starter_remove_one(g, right, singles, multis, cldr, shifting) ==
    LET char_vals == g.char_vals
        s == inner_loop(char_vals, g.left, right, multis, inner_init(char_vals, right, cldr))
        h == [g EXCEPT !.discont = s.discont]
    IN  IF s.panic THEN [h EXCEPT !.panic = TRUE]
        ELSE IF s.found # None
        THEN emit(h, multis[unwrap(s.found)], shifting, remove(char_vals, s.max_right),
                  right - g.left)
        ELSE emit(h, singles[at(char_vals, g.left)], shifting, char_vals, right - g.left)

\* right - left == 1 and the starter is in singles: lines 376-480
single_starter(g, right, singles, multis, cldr, shifting) ==
    LET char_vals == g.char_vals
        s == inner_loop(char_vals, g.left, right, multis, inner_init(char_vals, right, cldr))
        h == [g EXCEPT !.discont = s.discont]
    IN  IF s.panic THEN [h EXCEPT !.panic = TRUE]
        ELSE IF s.found # None
        THEN emit(h, multis[unwrap(s.found)], shifting,
                  IF s.try_two THEN remove(remove(char_vals, s.max_right), s.max_right - 1)
                  ELSE remove(char_vals, s.max_right),
                  right - g.left)
        ELSE emit(h, singles[at(char_vals, g.left)], shifting, char_vals, right - g.left)

\* slice_found trying to extend a slice of any length
slice_found_any_length(g, right, multis, shifting) ==
    LET char_vals == g.char_vals
        subset == slice(char_vals, g.left, right)
        try_discont == right + 1 < Len(char_vals)
        new_subset == Append(subset, at(char_vals, right + 1))
        h == [g EXCEPT !.discont = <<[key |-> new_subset, max_right |-> right + 1]>>]
    IN  IF ~try_discont THEN emit(g, multis[subset], shifting, char_vals, right - g.left)
        ELSE IF from_u32(at(char_vals, right)) = None
                \/ from_u32(at(char_vals, right + 1)) = None
        THEN [g EXCEPT !.panic = TRUE]
        ELSE IF get_ccc(at(char_vals, right)) = 0
                \/ get_ccc(at(char_vals, right)) >= get_ccc(at(char_vals, right + 1))
        THEN emit(g, multis[subset], shifting, char_vals, right - g.left)
        ELSE IF new_subset \in DOMAIN multis
        THEN emit(h, multis[new_subset], shifting, remove(char_vals, right + 1),
                  right - g.left)
        ELSE emit(h, multis[subset], shifting, char_vals, right - g.left)

\* a slice char_vals[left..right] was found in multis: lines 493-569
slice_found(g, right, multis, shifting) ==
    LET char_vals == g.char_vals
        subset == slice(char_vals, g.left, right)
        try_discont == Len(subset) = 2 /\ right + 1 < Len(char_vals)
        new_subset == <<subset[1], subset[2], at(char_vals, right + 1)>>
        h == [g EXCEPT !.discont = <<[key |-> new_subset, max_right |-> right + 1]>>]
    IN  IF ~try_discont THEN emit(g, multis[subset], shifting, char_vals, right - g.left)
        ELSE IF from_u32(at(char_vals, right)) = None
                \/ from_u32(at(char_vals, right + 1)) = None
        THEN [g EXCEPT !.panic = TRUE]
        ELSE IF get_ccc(at(char_vals, right)) = 0
                \/ get_ccc(at(char_vals, right)) >= get_ccc(at(char_vals, right + 1))
        THEN emit(g, multis[subset], shifting, char_vals, right - g.left)
        ELSE IF new_subset \in DOMAIN multis
        THEN emit(h, multis[new_subset], shifting, remove(char_vals, right + 1),
                  right - g.left)
        ELSE emit(h, multis[subset], shifting, char_vals, right - g.left)

\* implicit advancing left by 2
implicit_advance_two(g, shifting) ==
    LET left_val == at(g.char_vals, g.left)
    IN  [g EXCEPT !.cea = g.cea \o <<get_implicit_a(left_val, shifting),
                                     get_implicit_b(left_val, shifting)>>,
                  !.left = g.left + 2]

implicit(g, shifting) ==
    LET left_val == at(g.char_vals, g.left)
    IN  [g EXCEPT !.cea = g.cea \o <<get_implicit_a(left_val, shifting),
                                     get_implicit_b(left_val, shifting)>>,
                  !.left = g.left + 1]

\* a search that looks up the slice of two code points before any longer one
middle_two_first(g, right, singles, multis, cldr, shifting) ==
    LET two == slice(g.char_vals, g.left, g.left + 2)
        looked == [g EXCEPT !.slices = Append(@, two)]
    IN  IF right - g.left >= 2 /\ two \in DOMAIN multis
        THEN slice_found(looked, g.left + 2, multis, shifting)
        ELSE IF at(g.char_vals, g.left) \in DOMAIN singles
        THEN single_starter(IF right - g.left >= 2 THEN looked ELSE g, g.left + 1,
                            singles, multis, cldr, shifting)
        ELSE implicit(g, shifting)

\* 'middle: while check_multi && right > left; every slice looked up in multis
\* is added to g.slices
RECURSIVE middle(_, _, _, _, _, _)
middle(g, right, singles, multis, cldr, shifting) ==
    LET looked == [g EXCEPT !.slices = Append(@, slice(g.char_vals, g.left, right))]
    IN  IF right > g.left
        THEN IF right - g.left = 1
             THEN IF at(g.char_vals, g.left) \in DOMAIN singles
                  THEN single_starter(g, right, singles, multis, cldr, shifting)
                  ELSE middle(g, right - 1, singles, multis, cldr, shifting)
             ELSE IF slice(g.char_vals, g.left, right) \in DOMAIN multis
                  THEN slice_found(looked, right, multis, shifting)
                  ELSE middle(looked, right - 1, singles, multis, cldr, shifting)
        ELSE implicit(g, shifting)

\* one iteration of 'outer
outer_step(g0, o) ==
    LET g == [g0 EXCEPT !.slices = <<>>, !.discont = <<>>]
        char_vals == g.char_vals
        left == g.left
        cldr == o.cldr
        shifting == o.shifting
        low == IF cldr THEN LOW_CLDR ELSE LOW
        singles == IF cldr THEN SING_CLDR ELSE SING
        multis == IF cldr THEN MULT_CLDR ELSE MULT
        left_val == at(char_vals, left)
        lookahead == IF left_val \in NEED_THREE THEN 3
                     ELSE IF left_val \in NEED_TWO THEN 2
                     ELSE 1
        check_multi == lookahead > 1 /\ Len(char_vals) - left > 1
        right == IF left + lookahead > Len(char_vals) THEN Len(char_vals)
                 ELSE left + lookahead
    IN  IF left_val < 183 /\ left_val # 108 /\ left_val # 76
        THEN IF left_val \in DOMAIN low
             THEN emit(g, <<low[left_val]>>, shifting, char_vals, 1)
             ELSE [g EXCEPT !.panic = TRUE]
        ELSE IF ~check_multi
        THEN IF left_val \in DOMAIN singles
             THEN emit(g, singles[left_val], shifting, char_vals, 1)
             ELSE implicit(g, shifting)
        ELSE middle(g, right, singles, multis, cldr, shifting)

RECURSIVE outer_loop(_, _)
outer_loop(g, o) ==
    IF g.left < Len(g.char_vals) /\ ~g.panic THEN outer_loop(outer_step(g, o), o) ELSE g

get_cea_init(char_vals) ==
    [char_vals |-> char_vals, left |-> 0, last_variable |-> FALSE, cea |-> <<>>,
     panic |-> FALSE, slices |-> <<>>, discont |-> <<>>]

\* the final get_cea state; .cea is the value returned unless .panic
get_cea(char_vals, o) == outer_loop(get_cea_init(char_vals), o)

\* None stands for the panic that unwinds out of the call
nfd_to_sk(nfd_vals, o) ==
    LET g == get_cea(nfd_vals, o)
    IN  IF g.panic THEN None ELSE Some(get_sort_key(g.cea, o.shifting))

(***************************************************************************)
(* Functions, public.  A call is modelled with its locals: the frame       *)
(* [result, a_nfd, b_nfd, a_sk, b_sk], a local being None when the call     *)
(* ended before assigning it; result is "panic" when the call panicked.    *)
(***************************************************************************)
frame(r, an, bn, ask, bsk) ==
    [result |-> r, a_nfd |-> an, b_nfd |-> bn, a_sk |-> ask, b_sk |-> bsk]

\* collate without the early out on byte-equal strings
collate_no_early_out(sa, sb, o) ==
    LET an == get_nfd(sa)
        bn == get_nfd(sb)
        trimmed == trim_prefix(an, bn, o.cldr)
        ask == nfd_to_sk(trimmed[1], o)
        bsk == IF ask = None THEN None ELSE nfd_to_sk(trimmed[2], o)
        comparison == cmp(unwrap(ask), unwrap(bsk))
    IN  IF an = bn THEN frame(str_cmp(sa, sb), Some(an), Some(bn), None, None)
        ELSE IF ask = None \/ bsk = None
        THEN frame("panic", Some(trimmed[1]), Some(trimmed[2]), ask, bsk)
        ELSE IF comparison = "Equal"
        THEN frame(str_cmp(sa, sb), Some(trimmed[1]), Some(trimmed[2]), ask, bsk)
        ELSE frame(comparison, Some(trimmed[1]), Some(trimmed[2]), ask, bsk)

\* collate breaking a tie of the sort keys on the NFD sequences, not the strings
collate_tiebreak_on_nfd(sa, sb, o) ==
    IF Bytes(sa) = Bytes(sb) THEN frame("Equal", None, None, None, None)
    ELSE LET an == get_nfd(sa)
             bn == get_nfd(sb)
             trimmed == trim_prefix(an, bn, o.cldr)
             ask == nfd_to_sk(trimmed[1], o)
             bsk == IF ask = None THEN None ELSE nfd_to_sk(trimmed[2], o)
             comparison == cmp(unwrap(ask), unwrap(bsk))
         IN  IF an = bn THEN frame(str_cmp(sa, sb), Some(an), Some(bn), None, None)
             ELSE IF ask = None \/ bsk = None
             THEN frame("panic", Some(trimmed[1]), Some(trimmed[2]), ask, bsk)
             ELSE IF comparison = "Equal"
             THEN frame(cmp(an, bn), Some(trimmed[1]), Some(trimmed[2]), ask, bsk)
             ELSE frame(comparison, Some(trimmed[1]), Some(trimmed[2]), ask, bsk)

\* collate returning the comparison of the sort keys as it is
collate_keys_only(sa, sb, o) ==
    IF Bytes(sa) = Bytes(sb) THEN frame("Equal", None, None, None, None)
    ELSE LET an == get_nfd(sa)
             bn == get_nfd(sb)
             trimmed == trim_prefix(an, bn, o.cldr)
             ask == nfd_to_sk(trimmed[1], o)
             bsk == IF ask = None THEN None ELSE nfd_to_sk(trimmed[2], o)
             comparison == cmp(unwrap(ask), unwrap(bsk))
         IN  IF an = bn THEN frame(str_cmp(sa, sb), Some(an), Some(bn), None, None)
             ELSE IF ask = None \/ bsk = None
             THEN frame("panic", Some(trimmed[1]), Some(trimmed[2]), ask, bsk)
             ELSE frame(comparison, Some(trimmed[1]), Some(trimmed[2]), ask, bsk)

collate(sa, sb, o) ==
    IF Bytes(sa) = Bytes(sb) THEN frame("Equal", None, None, None, None)
    ELSE LET an == get_nfd(sa)
             bn == get_nfd(sb)
             trimmed == trim_prefix(an, bn, o.cldr)
             ask == nfd_to_sk(trimmed[1], o)
             bsk == IF ask = None THEN None ELSE nfd_to_sk(trimmed[2], o)
             comparison == cmp(unwrap(ask), unwrap(bsk))
         IN  IF an = bn THEN frame(str_cmp(sa, sb), Some(an), Some(bn), None, None)
             ELSE IF ask = None \/ bsk = None
             THEN frame("panic", Some(trimmed[1]), Some(trimmed[2]), ask, bsk)
             ELSE IF comparison = "Equal"
             THEN frame(str_cmp(sa, sb), Some(trimmed[1]), Some(trimmed[2]), ask, bsk)
             ELSE frame(comparison, Some(trimmed[1]), Some(trimmed[2]), ask, bsk)

collate_no_tiebreak(sa, sb, o) ==
    IF Bytes(sa) = Bytes(sb) THEN frame("Equal", None, None, None, None)
    ELSE LET an == get_nfd(sa)
             bn == get_nfd(sb)
             trimmed == trim_prefix(an, bn, o.cldr)
             ask == nfd_to_sk(trimmed[1], o)
             bsk == IF ask = None THEN None ELSE nfd_to_sk(trimmed[2], o)
         IN  IF an = bn THEN frame("Equal", Some(an), Some(bn), None, None)
             ELSE IF ask = None \/ bsk = None
             THEN frame("panic", Some(trimmed[1]), Some(trimmed[2]), ask, bsk)
             ELSE frame(cmp(unwrap(ask), unwrap(bsk)), Some(trimmed[1]), Some(trimmed[2]),
                        ask, bsk)

\* the standalone key of a string, as the conformance driver builds it
sort_key(s, o) == nfd_to_sk(get_nfd(s), o)

(***************************************************************************)
(* Input domains                                                           *)
(***************************************************************************)
RECURSIVE Strings(_, _)
Strings(alphabet, n) ==
    IF n = 0 THEN {<<>>}
    ELSE LET shorter == Strings(alphabet, n - 1)
         IN  shorter \cup {Append(s, c) : s \in {t \in shorter : Len(t) = n - 1},
                                          c \in alphabet}

\* 32 is variable, 97 a letter; 768 (ccc 230) and 820 (ccc 1) are ignorable
\* marks, out of canonical order as 768 820; 57344 has no table row
PairAlphabet == {32, 97, 768, 820, 57344}

PairStrings == Strings(PairAlphabet, MaxLen)

(***************************************************************************)
(* The pair specification: one call of collate or of collate_no_tiebreak   *)
(* on any two strings.                                                     *)
(***************************************************************************)
Init ==
    /\ str_a \in PairStrings
    /\ str_b \in PairStrings
    /\ str_c = <<>>
    /\ opt \in CollationOptions
    /\ pc = "start"
    /\ a_nfd = None /\ b_nfd = None /\ a_sk = None /\ b_sk = None
    /\ result = "none"
    /\ cea_state = get_cea_init(<<>>)
    /\ TablesLoaded
    /\ row_left = <<>>

Return(f, name) ==
    /\ pc' = name
    /\ result' = f.result
    /\ a_nfd' = f.a_nfd /\ b_nfd' = f.b_nfd
    /\ a_sk' = f.a_sk /\ b_sk' = f.b_sk
    /\ UNCHANGED <<str_a, str_b, str_c, opt, cea_state, lazy, calls, row_left>>

Collate ==
    /\ pc = "start"
    /\ Return(collate(str_a, str_b, opt), "collate")

CollateNoTiebreak ==
    /\ pc = "start"
    /\ Return(collate_no_tiebreak(str_a, str_b, opt), "collate_no_tiebreak")

Next == Collate \/ CollateNoTiebreak

Spec == Init /\ [][Next]_vars

(***************************************************************************)
(* The canonical-equivalence specification: the same calls on a string     *)
(* and its NFD form.  A &str holds no surrogate.                           *)
(***************************************************************************)
CanonAlphabet == {32, 97, 108, 183, 233, 768, 774, 820, 832, 1080, 1081, 44032, 57344}

CanonStrings == Strings(CanonAlphabet, MaxCanonLen)

InitCanon ==
    /\ str_a \in CanonStrings
    /\ str_b = nfd(str_a)
    /\ str_c = <<>>
    /\ opt \in CollationOptions
    /\ pc = "start"
    /\ a_nfd = None /\ b_nfd = None /\ a_sk = None /\ b_sk = None
    /\ result = "none"
    /\ cea_state = get_cea_init(<<>>)
    /\ TablesLoaded
    /\ row_left = <<>>

SpecCanon == InitCanon /\ [][Next]_vars

(***************************************************************************)
(* The three-string specification: collate as the comparator of a sort,    *)
(* on three strings that share the head SPACE, unlisted code point.        *)
(***************************************************************************)
OrderStrings == {<<32, 57344>> \o t : t \in Strings({768, 769, 832}, MaxTail)}

InitOrder ==
    /\ str_a \in OrderStrings
    /\ str_b \in OrderStrings
    /\ str_c \in OrderStrings
    /\ opt \in CollationOptions
    /\ pc = "start"
    /\ a_nfd = None /\ b_nfd = None /\ a_sk = None /\ b_sk = None
    /\ result = "none"
    /\ cea_state = get_cea_init(<<>>)
    /\ TablesLoaded
    /\ row_left = <<>>

\* the comparisons a sort makes of three elements
CompareThree ==
    /\ pc = "start"
    /\ pc' = "compared"
    /\ result' = [k \in {"ab", "bc", "ac"} |->
                      collate(IF k = "bc" THEN str_b ELSE str_a,
                              IF k = "ab" THEN str_b ELSE str_c, opt).result]
    /\ UNCHANGED <<str_a, str_b, str_c, opt, a_nfd, b_nfd, a_sk, b_sk, cea_state, lazy, calls, row_left>>

NextOrder == CompareThree

SpecOrder == InitOrder /\ [][NextOrder]_vars

(***************************************************************************)
(* The sort-key specification: get_nfd, get_cea one iteration of 'outer    *)
(* at a time, get_sort_key, on any code-point sequence; the conformance    *)
(* driver builds its strings unchecked, surrogates included.               *)
(***************************************************************************)
KeyAlphabet == {0, 32, 97, 108, 183, 233, 768, 774, 820, 1080, 44032, 55296, 57344}

KeyStrings == Strings(KeyAlphabet, MaxKeyLen)

InitKey ==
    /\ str_a \in KeyStrings
    /\ str_b = <<>>
    /\ str_c = <<>>
    /\ opt \in CollationOptions
    /\ pc = "start"
    /\ a_nfd = None /\ b_nfd = None /\ a_sk = None /\ b_sk = None
    /\ result = "none"
    /\ cea_state = get_cea_init(<<>>)
    /\ TablesLoaded
    /\ row_left = <<>>

GetNfd ==
    /\ pc = "start"
    /\ pc' = "get_cea"
    /\ a_nfd' = Some(get_nfd(str_a))
    /\ cea_state' = get_cea_init(get_nfd(str_a))
    /\ UNCHANGED <<str_a, str_b, str_c, opt, b_nfd, a_sk, b_sk, result, lazy, calls, row_left>>

OuterStep ==
    /\ pc = "get_cea"
    /\ cea_state.left < Len(cea_state.char_vals)
    /\ cea_state' = outer_step(cea_state, opt)
    /\ pc' = IF cea_state'.panic THEN "panic" ELSE "get_cea"
    /\ UNCHANGED <<str_a, str_b, str_c, opt, a_nfd, b_nfd, a_sk, b_sk, result, lazy, calls, row_left>>

GetSortKey ==
    /\ pc = "get_cea"
    /\ cea_state.left >= Len(cea_state.char_vals)
    /\ pc' = "done"
    /\ a_sk' = Some(get_sort_key(cea_state.cea, opt.shifting))
    /\ UNCHANGED <<str_a, str_b, str_c, opt, a_nfd, b_nfd, b_sk, result, cea_state, lazy, calls, row_left>>

NextKey == GetNfd \/ OuterStep \/ GetSortKey

SpecKey == InitKey /\ [][NextKey]_vars

(***************************************************************************)
(* The contraction specifications: the sort-key run on sequences of the    *)
(* code points that start, continue or block a contraction.  The first     *)
(* takes the sequences that begin with a code point of NEED_TWO or         *)
(* NEED_THREE, followed by up to MaxContractTail code points; the second   *)
(* the sequences that begin with a contraction of multis, followed by up   *)
(* to MaxExtTail code points.                                              *)
(***************************************************************************)
\* the longest tail after the first code point of the contraction specification
MaxContractTail == 3
\* the longest tail after the contraction of the extension specification
MaxExtTail == 2

\* 1080 774 and the Tibetan contractions, 820 a mark of ccc 1, a surrogate
ContractAlphabet == {774, 820, 1080, 3953, 3956, 3968, 4018, 55296}

ContractStrings ==
    {h \o t : h \in {<<1080>>, <<3953>>, <<4018>>},
              t \in Strings(ContractAlphabet, MaxContractTail)}

InitContract ==
    /\ str_a \in ContractStrings
    /\ str_b = <<>>
    /\ str_c = <<>>
    /\ opt \in CollationOptions
    /\ pc = "start"
    /\ a_nfd = None /\ b_nfd = None /\ a_sk = None /\ b_sk = None
    /\ result = "none"
    /\ cea_state = get_cea_init(<<>>)
    /\ TablesLoaded
    /\ row_left = <<>>

SpecContract == InitContract /\ [][NextKey]_vars

ExtAlphabet == {820, 3953, 3956, 3968, 55296}

ExtStrings ==
    {h \o t : h \in {<<1080, 774>>, <<3953, 3968>>, <<4018, 3953>>, <<4018, 3953, 3968>>},
              t \in Strings(ExtAlphabet, MaxExtTail)}

InitExtension ==
    /\ str_a \in ExtStrings
    /\ str_b = <<>>
    /\ str_c = <<>>
    /\ opt \in CollationOptions
    /\ pc = "start"
    /\ a_nfd = None /\ b_nfd = None /\ a_sk = None /\ b_sk = None
    /\ result = "none"
    /\ cea_state = get_cea_init(<<>>)
    /\ TablesLoaded
    /\ row_left = <<>>

SpecExtension == InitExtension /\ [][NextKey]_vars

(***************************************************************************)
(* The shifted-comparison specification: the keys of two strings built     *)
(* and compared as the conformance driver does, on strings of letters,     *)
(* variable code points and a mark that have the same letters up to case.  *)
(***************************************************************************)
\* every record of the row of c is flagged variable
is_variable(c, o) ==
    LET singles == IF o.cldr THEN SING_CLDR ELSE SING
    IN  c \in DOMAIN singles /\ \A i \in DOMAIN singles[c] : singles[c][i].variable

\* s without its variable code points
strip_variable(s, o) == SelectSeq(s, LAMBDA c : ~is_variable(c, o))

\* s with A for a
fold_case(s) == [i \in DOMAIN s |-> IF s[i] = 65 THEN 97 ELSE s[i]]

\* 32 and 183 are variable, 65 is 97 at the tertiary level, 108 183 is a
\* contraction, 768 a mark of primary 0
ShiftAlphabet == {32, 65, 97, 108, 183, 768}

ShiftStrings == Strings(ShiftAlphabet, MaxShiftLen)

InitShifted ==
    /\ str_a \in ShiftStrings
    /\ str_b \in ShiftStrings
    /\ str_c = <<>>
    /\ opt \in CollationOptions
    /\ fold_case(strip_variable(str_a, opt)) = fold_case(strip_variable(str_b, opt))
    /\ pc = "start"
    /\ a_nfd = None /\ b_nfd = None /\ a_sk = None /\ b_sk = None
    /\ result = "none"
    /\ cea_state = get_cea_init(<<>>)
    /\ TablesLoaded
    /\ row_left = <<>>

\* the key of the line and its comparison with the key of the line before
CompareKeys ==
    /\ pc = "start"
    /\ pc' = "keys"
    /\ a_nfd' = Some(get_nfd(str_a))
    /\ b_nfd' = Some(get_nfd(str_b))
    /\ a_sk' = sort_key(str_a, opt)
    /\ b_sk' = sort_key(str_b, opt)
    /\ result' = IF a_sk' = None \/ b_sk' = None THEN "panic"
                 ELSE cmp(unwrap(a_sk'), unwrap(b_sk'))
    /\ UNCHANGED <<str_a, str_b, str_c, opt, cea_state, lazy, calls, row_left>>

NextShifted == CompareKeys

SpecShifted == InitShifted /\ [][NextShifted]_vars

(***************************************************************************)
(* The implicit-weight specification: the sort-key run on one code point   *)
(* that has no row in the tables.  The code points are the ends of every   *)
(* range of get_implicit_a and get_implicit_b with their neighbours, the   *)
(* four of INCLUDED_UNASSIGNED, the first and the last code point of every *)
(* block of 32768 (where c >> 15 steps and c & 32767 is 0 or 32767), and a *)
(* surrogate.                                                              *)
(***************************************************************************)
ImplicitRanges == {<<13312, 19903>>, <<19968, 40959>>, <<63744, 64255>>, <<94208, 101119>>,
                   <<101120, 101631>>, <<101632, 101775>>, <<110960, 111359>>,
                   <<131072, 173791>>, <<173824, 191471>>, <<196608, 201551>>}

ImplicitInputs ==
    {c \in {r[i] + d : r \in ImplicitRanges, i \in {1, 2}, d \in {-1, 0, 1}}
              \cup INCLUDED_UNASSIGNED
              \cup {k * 32768 - d : k \in 1..34, d \in {0, 1}}
              \cup {55296, 57344} :
        c <= 1114111 /\ c \notin DOMAIN SING_CLDR}

InitImplicit ==
    /\ str_a \in {<<c>> : c \in ImplicitInputs}
    /\ str_b = <<>>
    /\ str_c = <<>>
    /\ opt \in CollationOptions
    /\ pc = "start"
    /\ a_nfd = None /\ b_nfd = None /\ a_sk = None /\ b_sk = None
    /\ result = "none"
    /\ cea_state = get_cea_init(<<>>)
    /\ TablesLoaded
    /\ row_left = <<>>

SpecImplicit == InitImplicit /\ [][NextKey]_vars

(***************************************************************************)
(* The prefix-trim specification: trim_prefix on the two sequences that    *)
(* collate hands it, which are outputs of get_nfd and differ.              *)
(***************************************************************************)
\* 32 is variable, 768 a mark of primary 0, 108 is in NEED_TWO, 4018 in
\* NEED_THREE, 57344 has no row in singles
TrimAlphabet == {32, 97, 108, 768, 4018, 57344}

TrimInputs == {get_nfd(s) : s \in Strings(TrimAlphabet, MaxTrimLen)}

InitTrim ==
    /\ str_a \in TrimInputs
    /\ str_b \in TrimInputs
    /\ str_a # str_b
    /\ str_c = <<>>
    /\ opt \in CollationOptions
    /\ pc = "start"
    /\ a_nfd = None /\ b_nfd = None /\ a_sk = None /\ b_sk = None
    /\ result = "none"
    /\ cea_state = get_cea_init(<<>>)
    /\ TablesLoaded
    /\ row_left = <<>>

\* trim_prefix(&mut a_nfd, &mut b_nfd, cldr)
TrimPrefix ==
    /\ pc = "start"
    /\ pc' = "trim_prefix"
    /\ a_nfd' = Some(trim_prefix(str_a, str_b, opt.cldr)[1])
    /\ b_nfd' = Some(trim_prefix(str_a, str_b, opt.cldr)[2])
    /\ UNCHANGED <<str_a, str_b, str_c, opt, a_sk, b_sk, result, cea_state, lazy, calls,
                   row_left>>

NextTrim == TrimPrefix

SpecTrim == InitTrim /\ [][NextTrim]_vars

(***************************************************************************)
(* The thread specification: calls of collate and collate_no_tiebreak on   *)
(* several threads, from a start in which no table has been forced.  A     *)
(* call dereferences the tables of its keys source and FCD, each at its    *)
(* first use; the specification lets it dereference them in any order, up  *)
(* to MaxDerefs times.  A Lazy cell is its state (incomplete, running,     *)
(* complete) and the slot its value is stored in; storing a HashMap is not *)
(* one atomic write, so the slot is torn between StoreBegin and StoreEnd.  *)
(***************************************************************************)
\* the number of threads
NThreads == 2
\* the most table dereferences of one call
MaxDerefs == 2

Threads == 1..NThreads

\* a slot caught in the middle of the write
torn == Some(<<>>)

ThreadCalls ==
    {[fn |-> "collate", a |-> <<233>>, b |-> <<101, 769>>,
      o |-> [cldr |-> FALSE, shifting |-> TRUE]],
     [fn |-> "collate_no_tiebreak", a |-> <<96>>, b |-> <<97>>,
      o |-> [cldr |-> TRUE, shifting |-> FALSE]]}

\* what the call returns when it runs alone, the tables loaded
alone(c) ==
    IF c.fn = "collate" THEN collate(c.a, c.b, c.o).result
    ELSE collate_no_tiebreak(c.a, c.b, c.o).result

\* the statics a call may dereference
statics_of(c) ==
    IF Bytes(c.a) = Bytes(c.b) THEN {}
    ELSE {"FCD"} \cup (IF c.o.cldr THEN {"LOW_CLDR", "SING_CLDR", "MULT_CLDR"}
                       ELSE {"LOW", "SING", "MULT"})

\* Lazy::force without the running state: whoever finds the cell not complete
\* runs the closure
force_unsynchronised(cell) == IF cell.state = "complete" THEN "read" ELSE "init"

\* Lazy::force: what a thread that dereferences the cell does
force(cell) ==
    IF cell.state = "complete" THEN "read"
    ELSE IF cell.state = "incomplete" THEN "init"
    ELSE "wait"

InitThreads ==
    /\ str_a = <<>> /\ str_b = <<>> /\ str_c = <<>>
    /\ opt = [cldr |-> FALSE, shifting |-> FALSE]
    /\ pc = "start"
    /\ a_nfd = None /\ b_nfd = None /\ a_sk = None /\ b_sk = None
    /\ result = "none"
    /\ cea_state = get_cea_init(<<>>)
    /\ row_left = <<>>
    /\ lazy = [n \in Statics |-> [state |-> "incomplete", slot |-> None]]
    /\ calls = [t \in Threads |-> [pc |-> "idle", call |-> None, ok |-> TRUE, derefs |-> 0,
                                   static |-> "", decoded |-> None, result |-> "none"]]

call_vars ==
    <<str_a, str_b, str_c, opt, pc, a_nfd, b_nfd, a_sk, b_sk, result, cea_state, row_left>>

\* the thread calls collate or collate_no_tiebreak
Call(t) ==
    /\ calls[t].pc = "idle"
    /\ \E c \in ThreadCalls : calls' = [calls EXCEPT ![t].pc = "run", ![t].call = Some(c)]
    /\ UNCHANGED <<lazy, call_vars>>

\* the call dereferences a static that is complete and reads the slot
Deref(t) ==
    /\ calls[t].pc = "run"
    /\ calls[t].derefs < MaxDerefs
    /\ \E n \in statics_of(unwrap(calls[t].call)) :
           /\ force(lazy[n]) = "read"
           /\ calls' = [calls EXCEPT ![t].derefs = @ + 1,
                                     ![t].ok = @ /\ lazy[n].slot = Some(decoded(n))]
    /\ UNCHANGED <<lazy, call_vars>>

\* the call dereferences a static that nobody has forced: it is the one to run
\* the closure
Force(t) ==
    /\ calls[t].pc = "run"
    /\ calls[t].derefs < MaxDerefs
    /\ \E n \in statics_of(unwrap(calls[t].call)) :
           /\ force(lazy[n]) = "init"
           /\ lazy' = [lazy EXCEPT ![n].state = "running"]
           /\ calls' = [calls EXCEPT ![t].pc = "decode", ![t].static = n]
    /\ UNCHANGED call_vars

\* the closure: bincode::deserialize of the embedded bytes
Decode(t) ==
    /\ calls[t].pc = "decode"
    /\ calls' = [calls EXCEPT ![t].pc = "store",
                              ![t].decoded = Some(decoded(calls[t].static))]
    /\ UNCHANGED <<lazy, call_vars>>

StoreBegin(t) ==
    /\ calls[t].pc = "store"
    /\ lazy' = [lazy EXCEPT ![calls[t].static].slot = torn]
    /\ calls' = [calls EXCEPT ![t].pc = "storing"]
    /\ UNCHANGED call_vars

StoreEnd(t) ==
    /\ calls[t].pc = "storing"
    /\ lazy' = [lazy EXCEPT ![calls[t].static].slot = calls[t].decoded]
    /\ calls' = [calls EXCEPT ![t].pc = "publish", ![t].decoded = None]
    /\ UNCHANGED call_vars

\* the cell becomes complete and the waiting threads go on
Publish(t) ==
    /\ calls[t].pc = "publish"
    /\ lazy' = [lazy EXCEPT ![calls[t].static].state = "complete"]
    /\ calls' = [calls EXCEPT ![t].pc = "run", ![t].static = ""]
    /\ UNCHANGED call_vars

\* the call returns: what it returns alone when every table it read was whole,
\* anything when it read a torn one
ReturnCall(t) ==
    /\ calls[t].pc = "run"
    /\ \E r \in Ordering \cup {"panic"} :
           /\ calls[t].ok => r = alone(unwrap(calls[t].call))
           /\ calls' = [calls EXCEPT ![t].pc = "done", ![t].result = r]
    /\ UNCHANGED <<lazy, call_vars>>

NextThreads ==
    \E t \in Threads :
        \/ Call(t)
        \/ Deref(t)
        \/ Force(t)
        \/ Decode(t)
        \/ StoreBegin(t)
        \/ StoreEnd(t)
        \/ Publish(t)
        \/ ReturnCall(t)

SpecThreads == InitThreads /\ [][NextThreads]_vars

(***************************************************************************)
(* The emission specification: the loop `for weights in row` on any row    *)
(* of weights records, from any value of last_variable.                    *)
(***************************************************************************)
\* the longest row
MaxRow == 2

WeightsRecords ==
    [variable : BOOLEAN, primary : {0, 521}, secondary : {0, 32}, tertiary : {0, 2}]

InitEmit ==
    /\ str_a = <<>> /\ str_b = <<>> /\ str_c = <<>>
    /\ opt \in CollationOptions
    /\ pc = "emit"
    /\ a_nfd = None /\ b_nfd = None /\ a_sk = None /\ b_sk = None
    /\ result = "none"
    /\ \E lv \in BOOLEAN : cea_state = [get_cea_init(<<>>) EXCEPT !.last_variable = lv]
    /\ TablesLoaded
    /\ row_left \in Strings(WeightsRecords, MaxRow)

\* one pass of the body of `for weights in row`
EmitWeights ==
    /\ pc = "emit"
    /\ row_left # <<>>
    /\ LET st == push_weights(Head(row_left),
                              [cea |-> cea_state.cea,
                               last_variable |-> cea_state.last_variable],
                              opt.shifting)
       IN  cea_state' = [cea_state EXCEPT !.cea = st.cea,
                                          !.last_variable = st.last_variable]
    /\ row_left' = Tail(row_left)
    /\ UNCHANGED <<str_a, str_b, str_c, opt, pc, a_nfd, b_nfd, a_sk, b_sk, result, lazy,
                   calls>>

NextEmit == EmitWeights

SpecEmit == InitEmit /\ [][NextEmit]_vars

(***************************************************************************)
(* Properties                                                              *)
(***************************************************************************)
reverse(ord) == IF ord = "Less" THEN "Greater" ELSE IF ord = "Greater" THEN "Less" ELSE ord

Zeros(k) == Cardinality({i \in DOMAIN k : k[i] = 0})

NoDecomposition(s) == \A i \in DOMAIN s : Decomposition(s[i]) = <<s[i]>>

\* C1: collate_no_tiebreak(a, b, o) is the lexicographic comparison of the sort
\* keys of the full, untrimmed NFD sequences of a and b.
C1_SortKeyEquivalence ==
    pc = "collate_no_tiebreak"
        => result = cmp(unwrap(sort_key(str_a, opt)), unwrap(sort_key(str_b, opt)))

\* C2: collate is transitive: a <= b and b <= c give a <= c.
C2_Transitive ==
    pc = "compared"
        => (result.ab # "Greater" /\ result.bc # "Greater" => result.ac # "Greater")

\* C3: collate(a, b, o) is the reverse of collate(b, a, o).
C3_AntiSymmetry ==
    pc = "collate" => result = reverse(collate(str_b, str_a, opt).result)

\* a call that trimmed a shared prefix, built both keys and found them different
C3_Witness ==
    /\ pc = "collate"
    /\ a_sk # None /\ b_sk # None /\ a_sk # b_sk
    /\ Len(unwrap(a_nfd)) < Len(get_nfd(str_a))
    /\ result = "Less"

\* C4: on byte-equal strings both functions return Equal, with no NFD sequence
\* and no sort key computed.
C4_Reflexive ==
    (pc \in {"collate", "collate_no_tiebreak"} /\ str_a = str_b)
        => /\ result = "Equal"
           /\ a_nfd = None /\ b_nfd = None
           /\ a_sk = None /\ b_sk = None

C4_Witness == pc = "collate" /\ str_a = str_b /\ Len(str_a) = MaxLen /\ ~fcd(str_a)

\* C5: collate returns what collate_no_tiebreak returns when that is Less or
\* Greater, and the comparison of the original strings when it is Equal.
C5_OnlyTiebreakDiffers ==
    pc = "collate"
        => LET nt == collate_no_tiebreak(str_a, str_b, opt).result
           IN  /\ nt \in {"Less", "Greater"} => result = nt
               /\ nt = "Equal" => result = str_cmp(str_a, str_b)

\* equal sort keys of different NFD sequences, the tie broken to Greater
C5_Witness ==
    /\ pc = "collate"
    /\ a_sk # None /\ a_sk = b_sk /\ a_nfd # b_nfd
    /\ result = "Greater"

C7_GetNfdIsNfd == a_nfd # None => a_nfd = Some(nfd(str_a))

\* C7 as amended: when fcd holds, the NFD of s is the decomposition of its code
\* points one by one, nothing reordered; get_nfd returns the NFD when moreover no
\* code point of s has a decomposition.
C7_FcdSound ==
    (a_nfd # None /\ fcd(str_a))
        => /\ nfd(str_a) = DecomposeAll(str_a)
           /\ a_nfd = Some(str_a)
           /\ NoDecomposition(str_a) => a_nfd = Some(nfd(str_a))

\* fcd held of a string with marks after a starter
C7_Witness ==
    /\ a_nfd # None /\ fcd(str_a) /\ NoDecomposition(str_a)
    /\ \E i \in DOMAIN str_a : get_ccc(str_a[i]) = 1
    /\ \E i \in DOMAIN str_a : get_ccc(str_a[i]) = 230

\* C8: a sort key holds exactly L - 1 zeros, L = 4 when shifting and 3 otherwise.
C8_LevelSeparators ==
    pc = "done" => Zeros(unwrap(a_sk)) = (IF opt.shifting THEN 4 ELSE 3) - 1

\* a key built from a CE sequence with an all-zero CE among others
C8_Witness ==
    /\ pc = "done"
    /\ Len(cea_state.cea) >= 2
    /\ \E i \in DOMAIN cea_state.cea : \A j \in DOMAIN cea_state.cea[i] : cea_state.cea[i][j] = 0
    /\ \E i \in DOMAIN cea_state.cea : cea_state.cea[i][1] # 0

\* C9 as stated: the key of the empty input is [0, 0, 0], or [0, 0, 0, 0] when
\* shifting.
C9_EmptyKeyAsStated ==
    (pc = "done" /\ str_a = <<>>)
        => a_sk = Some(IF opt.shifting THEN <<0, 0, 0, 0>> ELSE <<0, 0, 0>>)

\* C9 as amended: the key of the empty input is [0, 0], or [0, 0, 0] when
\* shifting.
C9_EmptyKey ==
    (pc = "done" /\ str_a = <<>>)
        => a_sk = Some(IF opt.shifting THEN <<0, 0, 0>> ELSE <<0, 0>>)

C9_Witness == pc = "done" /\ str_a = <<>> /\ opt.shifting

\* C10: get_cea never fails an unwrap.
C10_Total == pc # "panic" /\ ~cea_state.panic

\* level n of a sort key: its n-th run between the zero separators
RECURSIVE key_level(_, _)
key_level(k, n) ==
    IF k = <<>> THEN <<>>
    ELSE IF Head(k) = 0 THEN (IF n = 1 THEN <<>> ELSE key_level(Tail(k), n - 1))
    ELSE IF n = 1 THEN <<Head(k)>> \o key_level(Tail(k), 1)
    ELSE key_level(Tail(k), n)

up_to_tertiary(k) == <<key_level(k, 1), key_level(k, 2), key_level(k, 3)>>

\* no iteration of 'outer on g takes a multis row
RECURSIVE no_contraction(_, _)
no_contraction(g, o) ==
    IF g.left >= Len(g.char_vals) \/ g.panic THEN TRUE
    ELSE LET h == outer_step(g, o)
         IN  h.char_vals = g.char_vals /\ h.left = g.left + 1 /\ no_contraction(h, o)

\* a record that a preceding variable record turns into [0, 0, 0, 0]
after_variable_zeroed(w) == ~w.variable /\ w.primary = 0 /\ w.tertiary # 0

\* s has no such record and get_cea matches no contraction in it
plain(s, o) ==
    LET singles == IF o.cldr THEN SING_CLDR ELSE SING
    IN  /\ \A i \in DOMAIN s : s[i] \in DOMAIN singles
               => \A j \in DOMAIN singles[s[i]] : ~after_variable_zeroed(singles[s[i]][j])
        /\ no_contraction(get_cea_init(get_nfd(s)), o)

C12_ThreadSafe ==
    /\ \A t \in Threads : calls[t].ok
    /\ \A n \in Statics : lazy[n].state = "complete" => lazy[n].slot = Some(decoded(n))
    /\ \A t \in Threads : calls[t].pc = "done"
           => calls[t].result = alone(unwrap(calls[t].call))

\* a call has returned after reading a complete table, while another thread is
\* in the middle of storing the table it initialises
C12_Witness ==
    \E t, u \in Threads :
        /\ calls[t].pc = "done" /\ calls[t].derefs > 0
        /\ calls[t].result = "Greater"
        /\ calls[u].pc = "storing"
        /\ \E n \in Statics : lazy[n].state = "complete"

\* a CE emitted under shifting for a variable record
variable_ce(ce) == ce[1] = 0 /\ ce[2] = 0 /\ ce[3] = 0 /\ ce[4] # 0

\* whether the last CE of cea that is variable or has a non-zero primary is
\* variable
RECURSIVE last_was_variable(_)
last_was_variable(cea) ==
    IF cea = <<>> THEN FALSE
    ELSE LET ce == cea[Len(cea)]
         IN  IF variable_ce(ce) THEN TRUE
             ELSE IF ce[1] # 0 THEN FALSE
             ELSE last_was_variable(SubSeq(cea, 1, Len(cea) - 1))

\* C14: in shifting mode, after every iteration of 'outer, last_variable is true
\* exactly when the most recently emitted CE that was variable or had a non-zero
\* primary was variable, the CEs of the implicit-weight path included.
C14_LastVariable ==
    (pc \in {"get_cea", "done"} /\ opt.shifting)
        => cea_state.last_variable = last_was_variable(cea_state.cea)

\* the CE and the value of last_variable the four cases give for the record w
emitted_as_stated(w, lv, shifting) ==
    IF ~shifting
    THEN [ce |-> <<w.primary, w.secondary, w.tertiary>>, last_variable |-> lv]
    ELSE IF w.primary = 0 /\ w.secondary = 0 /\ w.tertiary = 0
    THEN [ce |-> <<0, 0, 0, 0>>, last_variable |-> lv]
    ELSE IF w.variable
    THEN [ce |-> <<0, 0, 0, w.primary>>, last_variable |-> TRUE]
    ELSE IF lv /\ w.primary = 0 /\ w.tertiary # 0
    THEN [ce |-> <<0, 0, 0, 0>>, last_variable |-> lv]
    ELSE [ce |-> <<w.primary, w.secondary, w.tertiary, 65535>>,
          last_variable |-> IF w.primary # 0 THEN FALSE ELSE lv]

multis_of(o) == IF o.cldr THEN MULT_CLDR ELSE MULT

singles_of(o) == IF o.cldr THEN SING_CLDR ELSE SING

last(q) == q[Len(q)]

\* c is a char and a non-starter
non_starter(c) == from_u32(c) # None /\ get_ccc(c) # 0

\* the CEs that emitting the row from the state g adds to g.cea
cea_after(g, table_row, o) ==
    push_row(table_row, [cea |-> g.cea, last_variable |-> g.last_variable], o.shifting).cea

\* the step is an iteration of 'outer
outer_stepped == pc = "get_cea" /\ cea_state' # cea_state

\* the iteration found the slice cv[left..right] in multis
slice_matched ==
    /\ outer_stepped
    /\ cea_state'.slices # <<>>
    /\ last(cea_state'.slices) \in DOMAIN multis_of(opt)

\* C16 as stated: after a contiguous match of length 2 or 3 at cv[left..right],
\* when cv[right] and cv[right + 1] are non-starters of increasing CCC and
\* cv[right + 1] is the last code point, sub ++ [cv[right + 1]] is looked up.
C16_ExtensionAsStated ==
    [][LET cv == cea_state.char_vals
           sub == last(cea_state'.slices)
           right == cea_state.left + Len(sub)
       IN  (/\ slice_matched
            /\ right + 2 = Len(cv)
            /\ non_starter(at(cv, right)) /\ non_starter(at(cv, right + 1))
            /\ get_ccc(at(cv, right)) < get_ccc(at(cv, right + 1)))
               => \E i \in DOMAIN cea_state'.discont :
                      cea_state'.discont[i].key = Append(sub, at(cv, right + 1))]_vars

\* C16 as amended: only a contiguous match of length 2 is extended, by the one
\* code point cv[right + 1] across cv[right]: the key sub ++ [cv[right + 1]] is
\* looked up exactly when right + 1 < len and 0 < CCC(cv[right]) <
\* CCC(cv[right + 1]), it is the only key looked up, and when it is in multis
\* its row is emitted, cv[right + 1] removed and left advanced by 2; when it is
\* not looked up or not found and get_cea does not panic, the row of sub is
\* emitted.
C16_Extension ==
    [][LET cv == cea_state.char_vals
           sub == last(cea_state'.slices)
           right == cea_state.left + Len(sub)
           ext == Append(sub, at(cv, right + 1))
           may == /\ Len(sub) = 2 /\ right + 1 < Len(cv)
                  /\ non_starter(at(cv, right)) /\ non_starter(at(cv, right + 1))
                  /\ get_ccc(at(cv, right)) < get_ccc(at(cv, right + 1))
           multis == multis_of(opt)
       IN  slice_matched
               => /\ cea_state'.discont
                         = IF may THEN <<[key |-> ext, max_right |-> right + 1]>> ELSE <<>>
                  /\ (may /\ ext \in DOMAIN multis)
                         => /\ cea_state'.cea = cea_after(cea_state, multis[ext], opt)
                            /\ cea_state'.char_vals = remove(cv, right + 1)
                            /\ cea_state'.left = cea_state.left + 2
                  /\ (~(may /\ ext \in DOMAIN multis) /\ ~cea_state'.panic)
                         => /\ cea_state'.cea = cea_after(cea_state, multis[sub], opt)
                            /\ cea_state'.char_vals = cv
                            /\ cea_state'.left = right]_vars

\* 4018 3953 was matched in the CLDR table and extended across a second 3953
\* by 3968
C16_Witness ==
    /\ pc = "get_cea" /\ opt.cldr
    /\ a_nfd = Some(<<4018, 3953, 3953, 3968>>)
    /\ cea_state.slices = <<<<4018, 3953, 3953>>, <<4018, 3953>>>>
    /\ cea_state.discont = <<[key |-> <<4018, 3953, 3968>>, max_right |-> 3]>>
    /\ cea_state.char_vals = <<4018, 3953, 3953>>
    /\ cea_state.left = 2

\* cv[i..=j] are non-starters, each of a CCC above those before it
increasing_ccc(cv, i, j) ==
    \A k \in i..j : /\ non_starter(at(cv, k))
                    /\ \A m \in i..(k - 1) : get_ccc(at(cv, m)) < get_ccc(at(cv, k))

\* the case of C17 at the cursor of cv: a NEED_TWO starter in singles, no
\* contiguous contraction, a contraction with cv[left + 2] across cv[left + 1]
one_skipped(cv, left, o) ==
    /\ left + 2 < Len(cv)
    /\ at(cv, left) \in NEED_TWO
    /\ at(cv, left) \in DOMAIN singles_of(o)
    /\ <<at(cv, left), at(cv, left + 1)>> \notin DOMAIN multis_of(o)
    /\ increasing_ccc(cv, left + 1, left + 2)
    /\ <<at(cv, left), at(cv, left + 2)>> \in DOMAIN multis_of(o)

\* the iteration matched [cv[left], cv[left + 2]], removed cv[left + 2] and
\* stepped to the skipped cv[left + 1]
took_one_skipped ==
    LET cv == cea_state.char_vals
        left == cea_state.left
    IN  /\ cea_state'.cea
               = cea_after(cea_state, multis_of(opt)[<<at(cv, left), at(cv, left + 2)>>], opt)
        /\ cea_state'.char_vals = remove(cv, left + 2)
        /\ cea_state'.left = left + 1

\* every key of a discontiguous search was built from a window of increasing CCC
windows_kosher ==
    \A i \in DOMAIN cea_state'.discont :
        LET d == cea_state'.discont[i]
        IN  increasing_ccc(cea_state.char_vals,
                           IF cea_state'.slices # <<>>
                              /\ last(cea_state'.slices) \in DOMAIN multis_of(opt)
                           THEN cea_state.left + 2 ELSE cea_state.left + 1,
                           d.max_right)

\* C17 as stated: in the case above the contraction [s, cv[left + 2]] is emitted,
\* cv[left + 2] removed and left advanced by 1; and no key is looked up from a
\* window that fails the CCC test.
C17_OneSkippedAsStated ==
    [][outer_stepped
          => /\ one_skipped(cea_state.char_vals, cea_state.left, opt) => took_one_skipped
             /\ windows_kosher]_vars

\* C18: in the single-starter search a three-point key is
\* [cv[left], cv[max_right - 1], cv[max_right]] with max_right = right + 2 inside
\* cv and the keys source CLDR; a two-point key is [cv[left], cv[max_right]];
\* and a three-point key that is not in multis is followed by the two-point key
\* of the same max_right.
C18_TryTwo ==
    [][(outer_stepped /\ ~slice_matched)
          => LET cv == cea_state.char_vals
                 left == cea_state.left
                 right == left + 1
                 discont == cea_state'.discont
             IN  \A i \in DOMAIN discont :
                     LET d == discont[i]
                         two == [key |-> <<at(cv, left), at(cv, d.max_right)>>,
                                 max_right |-> d.max_right]
                     IN  IF Len(d.key) = 3
                         THEN /\ opt.cldr
                              /\ d.max_right = right + 2 /\ right + 2 < Len(cv)
                              /\ d.key = <<at(cv, left), at(cv, d.max_right - 1),
                                           at(cv, d.max_right)>>
                              /\ d.key \notin DOMAIN multis_of(opt)
                                     => i < Len(discont) /\ discont[i + 1] = two
                         ELSE d = two]_vars

\* 1080 820 3953 774 under CLDR: 1080 3953 774 is not in multis, and 1080 774
\* was found from the same max_right
C18_Witness ==
    /\ pc = "get_cea" /\ opt.cldr
    /\ a_nfd = Some(<<1080, 820, 3953, 774>>)
    /\ cea_state.discont = <<[key |-> <<1080, 3953, 774>>, max_right |-> 3],
                             [key |-> <<1080, 774>>, max_right |-> 3]>>
    /\ cea_state.char_vals = <<1080, 820, 3953>>

\* the code points of v at the indices outside idx, in their order
without(v, idx) ==
    LET keep == SelectSeq([i \in 1..Len(v) |-> i - 1], LAMBDA i : i \notin idx)
    IN  [k \in 1..Len(keep) |-> at(v, keep[k])]

\* the code points of v at the indices of idx, in their order
picked(v, idx) == without(v, (0..(Len(v) - 1)) \ idx)

\* the iteration found a key of a discontiguous search in multis
discont_matched ==
    /\ outer_stepped
    /\ cea_state'.discont # <<>>
    /\ last(cea_state'.discont).key \in DOMAIN multis_of(opt)

\* the key whose row the iteration emitted: the discontiguous key, the slice
\* found in multis, or the code point at the cursor
matched_key ==
    IF discont_matched THEN last(cea_state'.discont).key
    ELSE IF slice_matched THEN last(cea_state'.slices)
    ELSE <<at(cea_state.char_vals, cea_state.left)>>

\* C19: an iteration of 'outer that does not panic consumes cv[left..right) and,
\* after a discontiguous match, the code points absorbed into the key: these
\* are cv[max_right] and, for a key two longer than the contiguous part,
\* cv[max_right - 1], all at indices >= right; exactly they are removed from cv,
\* cv[0..right) and the order of the rest are unchanged, left becomes right, and
\* the key emitted is cv[left..right) followed by the absorbed code points, so
\* that the skipped non-starters stay ahead of the cursor and every code point
\* goes into exactly one key.
C19_Removal ==
    [][(outer_stepped /\ ~cea_state'.panic)
          => LET cv == cea_state.char_vals
                 left == cea_state.left
                 right == left + (IF slice_matched THEN Len(last(cea_state'.slices)) ELSE 1)
                 d == last(cea_state'.discont)
                 absorbed == IF ~discont_matched THEN {}
                             ELSE IF Len(d.key) = right - left + 2
                             THEN {d.max_right - 1, d.max_right}
                             ELSE {d.max_right}
             IN  /\ \A i \in absorbed : right <= i /\ i < Len(cv)
                 /\ cea_state'.char_vals = without(cv, absorbed)
                 /\ slice(cea_state'.char_vals, 0, right) = slice(cv, 0, right)
                 /\ cea_state'.left = right
                 /\ matched_key = slice(cv, left, right) \o picked(cv, absorbed)
                 /\ discont_matched
                        => /\ cea_state'.cea
                                  = cea_after(cea_state, multis_of(opt)[matched_key], opt)
                           /\ \A i \in right..(d.max_right - Cardinality(absorbed)) :
                                  non_starter(at(cea_state'.char_vals, i))]_vars

\* 4018 820 3953 3968 under CLDR: 4018 3953 3968 was matched across 820, 3968
\* and 3953 were removed, and the cursor is on the skipped 820
C19_Witness ==
    /\ pc = "get_cea" /\ opt.cldr
    /\ a_nfd = Some(<<4018, 820, 3953, 3968>>)
    /\ cea_state.discont = <<[key |-> <<4018, 3953, 3968>>, max_right |-> 3]>>
    /\ cea_state.char_vals = <<4018, 820>>
    /\ cea_state.left = 1

\* the slices cv[left..top), cv[left..top - 1), ... down to two code points
candidates(cv, left, top) ==
    [k \in 1..(top - left - 1) |-> slice(cv, left, top - k + 1)]

\* C20: an iteration of 'outer that searches multis looks up the slices
\* cv[left..min(left + lookahead, len)), then each one shorter, down to the
\* first that is a key of multis or to the slice of two code points, and no
\* other; unless it panics, it then emits the row of the first slice found (or
\* of that slice extended by a discontiguous match), and only when no slice was
\* found the row of a key that starts at cv[left] alone: the singles row or a
\* discontiguous extension of it.
C20_LongestMatch ==
    [][outer_stepped
          => LET cv == cea_state.char_vals
                 left == cea_state.left
                 left_val == at(cv, left)
                 lookahead == IF left_val \in NEED_THREE THEN 3
                              ELSE IF left_val \in NEED_TWO THEN 2
                              ELSE 1
                 top == IF left + lookahead > Len(cv) THEN Len(cv) ELSE left + lookahead
                 searched == /\ ~(left_val < 183 /\ left_val # 108 /\ left_val # 76)
                             /\ lookahead > 1 /\ Len(cv) - left > 1
                 multis == multis_of(opt)
                 cands == candidates(cv, left, top)
                 hits == {k \in DOMAIN cands : cands[k] \in DOMAIN multis}
                 first == CHOOSE k \in hits : \A m \in hits : k <= m
                 emitted(key) == cea_state'.cea = cea_after(cea_state, multis[key], opt)
             IN  IF ~searched THEN cea_state'.slices = <<>>
                 ELSE IF hits # {}
                 THEN /\ cea_state'.slices = SubSeq(cands, 1, first)
                      /\ ~cea_state'.panic
                             => emitted(IF discont_matched
                                        THEN cands[first] \o <<last(last(cea_state'.discont).key)>>
                                        ELSE cands[first])
                 ELSE /\ cea_state'.slices = cands
                      /\ (~cea_state'.panic /\ left_val \in DOMAIN singles_of(opt))
                             => IF discont_matched
                                THEN /\ emitted(last(cea_state'.discont).key)
                                     /\ Head(last(cea_state'.discont).key) = left_val
                                ELSE cea_state'.cea
                                         = cea_after(cea_state, singles_of(opt)[left_val], opt)]_vars

\* 4018 3953 3968 under CLDR, where 4018 3953 is a key as well: the slice of
\* three was looked up first and its row emitted
C20_Witness ==
    /\ pc = "get_cea" /\ opt.cldr
    /\ a_nfd = Some(<<4018, 3953, 3968>>)
    /\ <<4018, 3953>> \in DOMAIN multis_of(opt)
    /\ cea_state.slices = <<<<4018, 3953, 3968>>>>
    /\ cea_state.left = 3
    /\ cea_state.cea = cea_after(get_cea_init(<<4018, 3953, 3968>>),
                                 multis_of(opt)[<<4018, 3953, 3968>>], opt)

\* the first k code points of a and b are pairwise equal and none of them is
\* in NEED_TWO or NEED_THREE
common_prefix(a, b, k) ==
    /\ k <= Len(a) /\ k <= Len(b)
    /\ \A i \in 1..k : a[i] = b[i] /\ a[i] \notin NEED_TWO \cup NEED_THREE

\* C21: trim_prefix leaves both sequences unchanged or removes from both their
\* first p code points, p being the length of the longest common prefix that
\* holds no code point of NEED_TWO or NEED_THREE; and it leaves both unchanged
\* when the singles row of the p-th code point has an entry that is variable
\* or has primary 0.
C21_TrimPrefix ==
    pc = "trim_prefix"
        => LET a == str_a
               b == str_b
               p == CHOOSE k \in 0..Len(a) :
                        common_prefix(a, b, k) /\ ~common_prefix(a, b, k + 1)
               unchanged == a_nfd = Some(a) /\ b_nfd = Some(b)
               sing == singles_of(opt)
           IN  /\ \/ unchanged
                  \/ /\ a_nfd = Some(SubSeq(a, p + 1, Len(a)))
                     /\ b_nfd = Some(SubSeq(b, p + 1, Len(b)))
               /\ (/\ p > 0
                   /\ a[p] \in DOMAIN sing
                   /\ \E i \in DOMAIN sing[a[p]] :
                          sing[a[p]][i].variable \/ sing[a[p]][i].primary = 0)
                      => unchanged

\* a a l against a a SPACE: the prefix a a is removed, and it stops before l,
\* which is in NEED_TWO
C21_Witness ==
    /\ pc = "trim_prefix"
    /\ str_a = <<97, 97, 108>> /\ str_b = <<97, 97, 32>>
    /\ a_nfd = Some(<<108>>) /\ b_nfd = Some(<<32>>)

\* the range table of the implicit weights: AAAA, and BBBB before the OR
table_aaaa(c) ==
    IF c \in INCLUDED_UNASSIGNED THEN 64448 + (c \div 32768)
    ELSE IF c \in 13312..19903 THEN 64384 + (c \div 32768)
    ELSE IF c \in 19968..40959 \/ c \in 63744..64255 THEN 64320 + (c \div 32768)
    ELSE IF c \in 94208..101119 \/ c \in 101632..101775 THEN 64256
    ELSE IF c \in 101120..101631 THEN 64258
    ELSE IF c \in 110960..111359 THEN 64257
    ELSE IF c \in 131072..173791 \/ c \in 173824..191471 \/ c \in 196608..201551
    THEN 64384 + (c \div 32768)
    ELSE 64448 + (c \div 32768)

table_bbbb(c) ==
    IF c \in 94208..101119 \/ c \in 101632..101775 THEN c - 94208
    ELSE IF c \in 101120..101631 THEN c - 101120
    ELSE IF c \in 110960..111359 THEN c - 110960
    ELSE c % 32768

\* the sequence is one code point of [0, 0x10FFFF] without a row in the
\* tables, and get_cea has taken the implicit path for it
took_implicit ==
    /\ pc \in {"get_cea", "done"}
    /\ Len(cea_state.char_vals) = 1 /\ cea_state.left = 1
    /\ at(cea_state.char_vals, 0) \in 183..1114111
    /\ at(cea_state.char_vals, 0) \notin DOMAIN singles_of(opt)

\* C22: the implicit path emits [AAAA, 32, 2] and [BBBB + 32768, 0, 0], each
\* with a fourth weight 65535 when shifting, AAAA and BBBB being the values of
\* the range table (BBBB is below 32768, so the OR adds 32768); both primaries
\* are above 0 and below 65536, so that the u16 holds them whole.
C22_Implicit ==
    took_implicit
        => LET c == at(cea_state.char_vals, 0)
               aaaa == table_aaaa(c)
               bbbb == table_bbbb(c) + 32768
               fourth == IF opt.shifting THEN <<65535>> ELSE <<>>
           IN  /\ table_bbbb(c) \in 0..32767
               /\ aaaa \in 1..65535 /\ bbbb \in 1..65535
               /\ cea_state.cea = << <<aaaa, 32, 2>> \o fourth, <<bbbb, 0, 0>> \o fourth >>

\* 177977 is in a CJK range and in INCLUDED_UNASSIGNED: AAAA is 64448 + 5
C22_Witness ==
    /\ took_implicit /\ ~opt.shifting
    /\ cea_state.char_vals = <<177977>>
    /\ cea_state.cea = << <<64453, 32, 2>>, <<46905, 0, 0>> >>

\* len(cv) - left
remaining(g) == Len(g.char_vals) - g.left

\* from any state 'inner can be in at the cursor, one iteration ends the
\* search (a key found, a panic), decrements max_right, or clears try_two
inner_decreases ==
    LET cv == cea_state.char_vals
        left == cea_state.left
        right == left + 1
    IN  \A max_right \in (right + 1)..(right + 2), try_two \in BOOLEAN :
            (max_right < Len(cv) /\ (try_two => max_right = right + 2))
                => LET s == [max_right |-> max_right, try_two |-> try_two, found |-> None,
                             panic |-> FALSE, discont |-> <<>>]
                       t == inner_step(cv, left, right, multis_of(opt), s)
                   IN  \/ t.found # None \/ t.panic
                       \/ t.max_right = max_right - 1
                       \/ t.max_right = max_right /\ try_two /\ ~t.try_two

\* the number of steps the run can still take is at most rank: one to get the
\* NFD form (of at most 4 code points for each one of the string), one for each
\* code point ahead of the cursor, one to build the key
rank ==
    CASE pc = "start" -> Len(str_a) * 4 + 2
      [] pc = "get_cea" -> remaining(cea_state) + 1
      [] OTHER -> 0

\* C23: left <= len(cv) in every state of get_cea; an iteration of 'outer that
\* does not panic advances left by at least 1 and makes len(cv) - left strictly
\* smaller; the slices that 'middle looks up get strictly shorter; an iteration
\* of 'inner ends the search, decrements max_right or clears try_two; and
\* every step of the run, the panic included, makes rank smaller, rank never
\* falling below 0, so that no run takes more than rank steps.
C23_Terminates ==
    [][/\ pc' = "get_cea"
              => (cea_state.left <= Len(cea_state.char_vals) /\ inner_decreases)'
       /\ (outer_stepped /\ ~cea_state'.panic)
              => /\ cea_state'.left >= cea_state.left + 1
                 /\ remaining(cea_state') < remaining(cea_state)
                 /\ \A i \in 1..(Len(cea_state'.slices) - 1) :
                        Len(cea_state'.slices[i + 1]) = Len(cea_state'.slices[i]) - 1
       /\ rank' < rank /\ rank' >= 0]_vars

\* 4018 820 3953 3968 under CLDR ran to its key through a discontiguous match
\* that removed two code points
C23_Witness ==
    /\ pc = "done" /\ opt.cldr
    /\ a_nfd = Some(<<4018, 820, 3953, 3968>>)
    /\ cea_state.char_vals = <<4018, 820>>
    /\ cea_state.left = 2

\* C24: collate returns Equal only for byte-equal strings; for two different
\* strings it returns Less or Greater, also when their NFD sequences or their
\* sort keys are equal.
C24_EqualOnlyByteEqual ==
    pc = "collate"
        => /\ result = "Equal" => Bytes(str_a) = Bytes(str_b)
           /\ str_a # str_b => result \in {"Less", "Greater"}

\* a SPACE against a SPACE U+0300 when shifting: the mark after the variable
\* is zeroed, the sort keys are equal, and the shorter string is Less
C24_Witness ==
    /\ pc = "collate" /\ opt.shifting
    /\ str_a = <<97, 32>> /\ str_b = <<97, 32, 768>>
    /\ a_sk # None /\ a_sk = b_sk
    /\ result = "Less"

====
